---- MODULE Spec2Model ----
(***************************************************************************)
(* A model of wasmgpu: the orbital Camera and the State resource lifecycle *)
(* of src/src/lib.rs, and the buffer sizing / dispatch arithmetic of       *)
(* Generator::generate_buffers in src/src/meshgrid.rs.                     *)
(*                                                                         *)
(* Numbers.  TLC's integers are 32-bit signed, so neither a u32 nor the    *)
(* mathematical value of a u32 product fits in one.  Every u32 and every   *)
(* mathematical integer that can exceed 2^31 is therefore held as a        *)
(* little-endian sequence of base-256 digits with no leading zero digit    *)
(* (a "Big"); the operators below are exact.  An f32 is held exactly too:  *)
(* a finite f32 of magnitude >= 2^-6 (or any multiple of 2^-30 with at     *)
(* most 24 significant bits) is a sign and a Big counting units of 2^-30,  *)
(* and RoundF32 is IEEE round-to-nearest-even to a 24-bit significand.     *)
(***************************************************************************)
EXTENDS Integers, Sequences, FiniteSets, TLC

(***************************************************************************)
(* Exact natural-number arithmetic on base-256 digit sequences.            *)
(***************************************************************************)
RECURSIVE BigNorm(_)
BigNorm(a) ==
    IF a = <<>> THEN <<>>
    ELSE IF a[Len(a)] = 0 THEN BigNorm(SubSeq(a, 1, Len(a) - 1))
    ELSE a

RECURSIVE BigOfNat(_)
BigOfNat(n) ==
    IF n = 0 THEN <<>> ELSE <<n % 256>> \o BigOfNat(n \div 256)

Digit(a, i) == IF i <= Len(a) THEN a[i] ELSE 0

Rest(a) == IF a = <<>> THEN <<>> ELSE Tail(a)

RECURSIVE BigAddC(_, _, _)
BigAddC(a, b, c) ==
    IF a = <<>> /\ b = <<>>
    THEN (IF c = 0 THEN <<>> ELSE <<c>>)
    ELSE LET s == Digit(a, 1) + Digit(b, 1) + c
         IN  <<s % 256>> \o BigAddC(Rest(a), Rest(b), s \div 256)

BigAdd(a, b) == BigNorm(BigAddC(a, b, 0))

\* a < b, a = b on normalised digit sequences
RECURSIVE BigLtSameLen(_, _, _)
BigLtSameLen(a, b, i) ==
    IF i = 0 THEN FALSE
    ELSE IF a[i] # b[i] THEN a[i] < b[i]
    ELSE BigLtSameLen(a, b, i - 1)

BigLt(a, b) ==
    IF Len(a) # Len(b) THEN Len(a) < Len(b) ELSE BigLtSameLen(a, b, Len(a))

BigLe(a, b) == a = b \/ BigLt(a, b)

\* a - b for a >= b
RECURSIVE BigSubB(_, _, _)
BigSubB(a, b, borrow) ==
    IF a = <<>> THEN <<>>
    ELSE LET d == a[1] - Digit(b, 1) - borrow
         IN  IF d < 0
             THEN <<d + 256>> \o BigSubB(Tail(a), Rest(b), 1)
             ELSE <<d>> \o BigSubB(Tail(a), Rest(b), 0)

BigSub(a, b) == BigNorm(BigSubB(a, b, 0))

\* a * d + c for one digit d
RECURSIVE BigMulDigit(_, _, _)
BigMulDigit(a, d, c) ==
    IF a = <<>> THEN (IF c = 0 THEN <<>> ELSE BigOfNat(c))
    ELSE LET p == a[1] * d + c
         IN  <<p % 256>> \o BigMulDigit(Tail(a), d, p \div 256)

RECURSIVE BigMul(_, _)
BigMul(a, b) ==
    IF b = <<>> \/ a = <<>> THEN <<>>
    ELSE BigAdd(BigNorm(BigMulDigit(a, b[1], 0)),
                BigNorm(<<0>> \o BigMul(a, Tail(b))))

\* <<quotient digits (not normalised), remainder>> of a / d for 0 < d < 256
RECURSIVE BigDivDigit(_, _)
BigDivDigit(a, d) ==
    IF a = <<>> THEN << <<>>, 0 >>
    ELSE LET hi  == BigDivDigit(Tail(a), d)
             cur == hi[2] * 256 + a[1]
         IN  << <<cur \div d>> \o hi[1], cur % d >>

RECURSIVE Pow2(_)
Pow2(k) == IF k = 0 THEN 1 ELSE 2 * Pow2(k - 1)

Zeros(n) == [i \in 1..n |-> 0]

\* a * 2^k
BigShl(a, k) ==
    IF a = <<>> THEN <<>>
    ELSE BigNorm(Zeros(k \div 8) \o BigMulDigit(a, Pow2(k % 8), 0))

\* floor(a / 2^k)
BigShr(a, k) ==
    IF Len(a) <= k \div 8 THEN <<>>
    ELSE BigNorm(BigDivDigit(SubSeq(a, (k \div 8) + 1, Len(a)), Pow2(k % 8))[1])

\* a mod 2^k
BigLowBits(a, k) == BigSub(a, BigShl(BigShr(a, k), k))

\* number of significant bits
RECURSIVE BitLenDigit(_)
BitLenDigit(d) == IF d = 0 THEN 0 ELSE 1 + BitLenDigit(d \div 2)

BigBitLen(a) == IF a = <<>> THEN 0 ELSE 8 * (Len(a) - 1) + BitLenDigit(a[Len(a)])

\* a mod m for m > 0
RECURSIVE BigMod(_, _)
BigMod(a, m) ==
    IF BigLt(a, m) THEN a
    ELSE LET r == BigMod(a, BigShl(m, 1))
         IN  IF BigLt(r, m) THEN r ELSE BigSub(r, m)

BigIsOdd(a) == a # <<>> /\ a[1] % 2 = 1

(***************************************************************************)
(* u32 arithmetic (meshgrid.rs:142-161, 253-257).  A u32 is a Big below    *)
(* 2^32.  Each operator returns the wrapped value and whether the exact    *)
(* result left the u32 range: with overflow checks compiled in (a debug    *)
(* build) such an operation panics, without them (a release build) it      *)
(* wraps.                                                                  *)
(***************************************************************************)
U32Wrap(a) == BigLowBits(a, 32)

U32Mul(a, b) ==
    LET p == BigMul(a, b)
    IN  [val |-> U32Wrap(p), ovf |-> BigBitLen(p) > 32]

U32Add(a, b) ==
    LET p == BigAdd(a, b)
    IN  [val |-> U32Wrap(p), ovf |-> BigBitLen(p) > 32]

U32Sub(a, b) ==
    IF BigLe(b, a)
    THEN [val |-> BigSub(a, b), ovf |-> FALSE]
    ELSE [val |-> BigSub(BigAdd(BigShl(<<1>>, 32), a), b), ovf |-> TRUE]

(***************************************************************************)
(* f32 arithmetic.  A value is [neg, mag]: sign and magnitude in units of  *)
(* 2^-30; zero is [neg |-> FALSE, mag |-> <<>>] (the sign of a zero is not *)
(* kept: no comparison in the code tells -0.0 from 0.0).  NaN and the      *)
(* infinities are outside the value set.                                   *)
(***************************************************************************)
\* IEEE round-to-nearest, ties-to-even, of mag (+ a nonzero fraction below
\* the unit when sticky) to 24 significant bits
RoundF32S(mag, sticky) ==
    LET len == BigBitLen(mag)
    IN  IF len <= 24 THEN mag
        ELSE LET k    == len - 24
                 q    == BigShr(mag, k)
                 rem  == BigLowBits(mag, k)
                 half == BigShl(<<1>>, k - 1)
                 up   == \/ BigLt(half, rem)
                         \/ (rem = half /\ (sticky \/ BigIsOdd(q)))
             IN  BigShl(IF up THEN BigAdd(q, <<1>>) ELSE q, k)

RoundF32(mag) == RoundF32S(mag, FALSE)

FVal(neg, mag) == [neg |-> neg /\ mag # <<>>, mag |-> mag]

\* the f32 m * 2^e, for 0 <= m < 2^24 and e >= -30
F32(m, e) == FVal(FALSE, BigShl(BigOfNat(m), e + 30))

FNeg(a) == FVal(~a.neg, a.mag)

FZero == FVal(FALSE, <<>>)

\* a < b
FLt(a, b) ==
    IF a.neg # b.neg THEN a.neg
    ELSE IF a.neg THEN BigLt(b.mag, a.mag)
    ELSE BigLt(a.mag, b.mag)

\* the exact sum, not rounded
ExactAdd(a, b) ==
    IF a.neg = b.neg THEN FVal(a.neg, BigAdd(a.mag, b.mag))
    ELSE IF BigLe(b.mag, a.mag) THEN FVal(a.neg, BigSub(a.mag, b.mag))
    ELSE FVal(b.neg, BigSub(b.mag, a.mag))

\* f32 a + b, a - b
FAdd(a, b) == LET e == ExactAdd(a, b) IN FVal(e.neg, RoundF32(e.mag))

FSub(a, b) == FAdd(a, FNeg(b))

\* f32 a % b (the truncating remainder, exact, sign of a), b # 0
FRem(a, b) == FVal(a.neg, BigMod(a.mag, b.mag))

FAbs(a) == FVal(FALSE, a.mag)

\* f32 a * b, in units of 2^-60 (the rounded product of two values of the
\* lattice need not be a multiple of 2^-30 when it is below 2^-6)
FMulFine(a, b) == FVal(a.neg # b.neg, RoundF32(BigMul(a.mag, b.mag)))

Fine(a) == FVal(a.neg, BigShl(a.mag, 30))

\* f32::clamp of a value in units of 2^-60 to [lo, hi], lo >= 2^-6: the
\* result is a multiple of 2^-30 again
FClampFine(v, lo, hi) ==
    IF FLt(v, Fine(lo)) THEN lo
    ELSE IF FLt(Fine(hi), v) THEN hi
    ELSE FVal(v.neg, BigShr(v.mag, 30))

\* f32::clamp
FClamp(v, lo, hi) ==
    IF FLt(v, lo) THEN lo ELSE IF FLt(hi, v) THEN hi ELSE v

\* w as f32 / h as f32 for 0 < w, h < 256
F32Div(w, h) ==
    LET d == BigDivDigit(BigShl(BigOfNat(w), 60), h)
        r == RoundF32S(BigNorm(d[1]), d[2] # 0)
    IN  FVal(FALSE, BigShr(r, 30))

(***************************************************************************)
(* lib.rs: float_modulo and the Camera                                     *)
(***************************************************************************)
PI == F32(13176795, -22)

TAU == F32(13176795, -21)

CLOSEST == F32(13421773, -27)

FARTHEST == F32(15, 0)

ZENITH_CLAMP == F32(10737418, -30)

float_modulo(a, b) ==
    LET r == FRem(a, b)
    IN  IF FLt(r, FZero) THEN FAdd(r, FAbs(b)) ELSE r

rotate_zenith(c, angle) ==
    [c EXCEPT !.zenith =
        FClamp(FAdd(c.zenith, angle), ZENITH_CLAMP, FSub(PI, ZENITH_CLAMP))]

rotate_azimuth(c, angle) ==
    [c EXCEPT !.azimuth = float_modulo(FAdd(c.azimuth, angle), TAU)]

move_distance(c, distance) ==
    [c EXCEPT !.distance =
        FClampFine(FMulFine(c.distance, FSub(F32(1, 0), distance)),
                   CLOSEST, FARTHEST)]

\* A Vec3 with integer coordinates (Vec3::ZERO, Vec3::Z, a target)
Vec3(x, y, z) == [x |-> x, y |-> y, z |-> z]

\* libm::sincosf(a).0 and .1, kept as the terms they are
Sin(a) == [fn |-> "sin", of |-> a]

Cos(a) == [fn |-> "cos", of |-> a]

\* Each coordinate is the product, left to right, of the factors listed.
spherical_to_rect(c) ==
    [x |-> <<c.distance, Sin(c.zenith), Cos(c.azimuth)>>,
     y |-> <<c.distance, Sin(c.zenith), Sin(c.azimuth)>>,
     z |-> <<c.distance, Cos(c.zenith)>>]

\* p + k of a product p (a coordinate of spherical_to_rect) and an integer k
Offset(p, k) == [product |-> p, plus |-> k]

\* Vec3 - Vec3 (lib.rs:39) of a vector of products and an integer vector:
\* an f32 a - b is a + (-b)
Vec3Sub(a, b) ==
    [x |-> Offset(a.x, 0 - b.x),
     y |-> Offset(a.y, 0 - b.y),
     z |-> Offset(a.z, 0 - b.z)]

\* The matrix is kept as the arguments it is computed from: those of
\* Mat4::look_at_rh (eye, center, up) and of Mat4::perspective_rh.
view_proj(c) ==
    [eye    |-> Vec3Sub(spherical_to_rect(c), c.target),
     center |-> c.target,
     up     |-> Vec3(0, 0, 1),
     fovy   |-> c.fovy, aspect |-> c.aspect,
     znear  |-> c.znear, zfar |-> c.zfar]

NewCamera(width, height) ==
    [target   |-> Vec3(0, 0, 0),
     distance |-> F32(12, 0),
     zenith   |-> F32(14110791, -24),
     azimuth  |-> F32(9287437, -23),
     aspect   |-> F32Div(width, height),
     fovy     |-> F32(13176795, -23),
     znear    |-> F32(13421773, -27),
     zfar     |-> F32(100, 0)]

(***************************************************************************)
(* meshgrid.rs: Generator::generate_buffers                                *)
(***************************************************************************)
U(n) == BigOfNat(n)

\* grid_leftover / grid_chunks of one axis (meshgrid.rs:142-155)
grid_chunks_floor(n) == BigShr(n, 4)

grid_chunks(n) ==
    IF BigLowBits(n, 4) # <<>>
    THEN U32Add(BigShr(n, 4), U(1)).val
    ELSE BigShr(n, 4)

\* evaluator_dispatch_count (meshgrid.rs:253-257)
evaluator_dispatch_count(vertex_count) ==
    IF BigLowBits(vertex_count, 8) # <<>>
    THEN U32Add(BigShr(vertex_count, 8), U(1)).val
    ELSE BigShr(vertex_count, 8)

\* The arithmetic of lines 142-161 on resolution (w, h): every local, and
\* whether some u32 operation left the u32 range.
GenArith(w, h) ==
    LET vc   == U32Mul(w, h)
        vb4  == U32Mul(vc.val, U(4))
        vb   == U32Mul(vb4.val, U(6))
        w1   == U32Sub(w, U(1))
        h1   == U32Sub(h, U(1))
        cell == U32Mul(w1.val, h1.val)
        ic   == U32Mul(cell.val, U(6))
        ib   == U32Mul(ic.val, U(4))
    IN  [resolution        |-> <<w, h>>,
         grid_chunks       |-> <<grid_chunks(w), grid_chunks(h)>>,
         vertex_count      |-> vc.val,
         vertex_byte_count |-> vb.val,
         index_count       |-> ic.val,
         index_byte_count  |-> ib.val,
         overflow          |-> \/ vc.ovf \/ vb4.ovf \/ vb.ovf \/ w1.ovf
                               \/ h1.ovf \/ cell.ovf \/ ic.ovf \/ ib.ovf]

(***************************************************************************)
(* The State of lib.rs as a record s of its fields, with the effects of    *)
(* the running operation: s.events, the device and queue calls it has made *)
(* in order, and s.panicked.  A panic ends the operation where it happens. *)
(***************************************************************************)
MSAA_SAMPLE_COUNT == 4

None == <<>>

Some(v) == <<v>>

is_some(o) == o # <<>>

Emit(s, op, obj) == [s EXCEPT !.events = Append(@, [op |-> op, obj |-> obj])]

Panic(s) == [s EXCEPT !.panicked = TRUE]

\* A new resource is told from every one a field of State still refers to.
FreshId(used) == CHOOSE i \in 1..(Cardinality(used) + 1) :
                    i \notin used /\ \A j \in 1..(i - 1) : j \in used

TextureIds(s) ==
    {s.depth_texture.id, s.depth_texture_view.texture}
    \cup {s.multisample_texture[i].id : i \in DOMAIN s.multisample_texture}
    \cup {s.multisample_texture_view[i].texture :
            i \in DOMAIN s.multisample_texture_view}

CreateTexture(s, sample_count) ==
    [id           |-> FreshId(TextureIds(s)),
     width        |-> s.config.width,
     height       |-> s.config.height,
     sample_count |-> sample_count,
     destroyed    |-> FALSE]

create_view(tex) == [texture |-> tex.id]

\* lib.rs:231-257, and the assignment of its result (365-367 and 205)
create_depth_texture(s, sample_count) ==
    LET tex == CreateTexture(s, sample_count)
    IN  [Emit(s, "create", "depth") EXCEPT
            !.depth_texture = tex, !.depth_texture_view = create_view(tex)]

\* lib.rs:260-283, and the assignment of its result (358-360)
create_multisample_texture(s) ==
    LET tex == CreateTexture(s, MSAA_SAMPLE_COUNT)
    IN  [Emit(s, "create", "multisample") EXCEPT
            !.multisample_texture = Some(tex),
            !.multisample_texture_view = Some(create_view(tex))]

create_render_pipeline(s, sample_count) ==
    [Emit(s, "create", "render_pipeline") EXCEPT
        !.render_pipeline = [sample_count |-> sample_count]]

write_camera(s) ==
    [Emit(s, "write_buffer", "camera_buffer") EXCEPT
        !.camera_buffer = view_proj(s.camera)]

(***************************************************************************)
(* meshgrid.rs: GridBuffers, generate_buffers, evaluate_buffers            *)
(***************************************************************************)
\* GridBuffers::destroy is called at lib.rs:377 and is not among the source
\* files; spec.md 3 ("destroyed explicitly by the owner") is what it does.
GridBuffers_destroy(g) ==
    [g EXCEPT !.vertex_buffer.destroyed = TRUE, !.index_buffer.destroyed = TRUE]

\* meshgrid.rs:163-170
write_uniform(s, w, h) ==
    [Emit(s, "write_buffer", "uniform_buffer") EXCEPT
        !.uniform_buffer = [resolution |-> <<w, h>>,
                            x_range |-> <<-5, 5>>, y_range |-> <<-5, 5>>]]

\* meshgrid.rs:172-267: the buffers, the generation pass and its
\* submission, the evaluator bind group, the GridBuffers returned
submit_generate(s, id, a) ==
    [Emit(Emit(s, "create", "grid"), "submit", "generate") EXCEPT
       !.local = Some(
         [id            |-> id,
          vertex_buffer |-> [size |-> a.vertex_byte_count, destroyed |-> FALSE],
          index_buffer  |-> [size |-> a.index_byte_count, destroyed |-> FALSE],
          index_count   |-> a.index_count,
          index_format  |-> "Uint32",
          evaluator_dispatch_count |-> evaluator_dispatch_count(a.vertex_count),
          evaluator_bind_group     |-> [vertex_buffer |-> id],
          submitted     |-> <<[pass |-> "generate",
                               uniform |-> s.uniform_buffer,
                               dispatches |->
                                 <<[pipeline |-> "gen_vertex_pipeline",
                                    workgroups |-> <<a.grid_chunks[1],
                                                     a.grid_chunks[2], U(1)>>],
                                   [pipeline |-> "gen_index_pipeline",
                                    workgroups |-> <<a.grid_chunks[1],
                                                     a.grid_chunks[2], U(1)>>]>>]>>])]

\* the uniform written after the submission of the passes
generate_with_late_write(s, used, w, h, a) ==
    IF a.overflow /\ s.overflow_checks
    THEN Panic([s EXCEPT !.gen = Some(a)])
    ELSE write_uniform(submit_generate([s EXCEPT !.gen = Some(a)],
                                       FreshId(used), a),
                       w, h)

\* meshgrid.rs:136-267 with the locals a of lines 142-161.  With overflow
\* checks an overflowing operation of those lines panics, before any call
\* on the device or the queue.
generate_with(s, used, w, h, a) ==
    IF a.overflow /\ s.overflow_checks
    THEN Panic([s EXCEPT !.gen = Some(a)])
    ELSE submit_generate(write_uniform([s EXCEPT !.gen = Some(a)], w, h),
                         FreshId(used), a)

\* meshgrid.rs:136-267.  used: the ids of the GridBuffers the caller holds.
\* The result is left in s.local (the caller's `let meshgrid_buffers`).
generate_buffers(s, used, w, h) == generate_with(s, used, w, h, GenArith(w, h))

\* every dispatch bound to the first target's bind group
evaluate_pass_first(grid_buffers) ==
    [pass       |-> "evaluate",
     dispatches |->
        [k \in DOMAIN grid_buffers |->
            [pipeline   |-> "evaluator_pipeline",
             bind_group |-> grid_buffers[1].evaluator_bind_group,
             workgroups |-> <<grid_buffers[k].evaluator_dispatch_count,
                              U(1), U(1)>>]]]

\* meshgrid.rs:385-400: the command buffer evaluate_buffers encodes for the
\* targets grid_buffers, one compute pass with one dispatch per target
evaluate_pass(grid_buffers) ==
    [pass       |-> "evaluate",
     dispatches |->
        [k \in DOMAIN grid_buffers |->
            [pipeline   |-> "evaluator_pipeline",
             bind_group |-> grid_buffers[k].evaluator_bind_group,
             workgroups |-> <<grid_buffers[k].evaluator_dispatch_count,
                              U(1), U(1)>>]]]

\* meshgrid.rs:383-402, on the one target both callers in lib.rs pass:
\* s.local
evaluate_buffers(s) ==
    [Emit(s, "submit", "evaluate") EXCEPT
       !.local[1].submitted = Append(@, evaluate_pass(s.local))]

(***************************************************************************)
(* lib.rs: the operations of State                                         *)
(***************************************************************************)
\* lib.rs:341
resize_guard_height(width, height) == height > 0

resize_guard(width, height) == width > 0 /\ height > 0

\* lib.rs:342-344
configure(s, width, height) ==
    Emit([s EXCEPT !.config.width = width, !.config.height = height],
         "configure", "surface")

\* lib.rs:347
destroy_depth_forgotten(s) == s

destroy_depth(s) ==
    Emit([s EXCEPT !.depth_texture.destroyed = TRUE], "destroy", "depth")

\* lib.rs:349-363: the sample count resize builds the depth texture with
resize_sample_count_one(s) == 1

resize_sample_count(s) ==
    IF s.multisampling_enabled THEN MSAA_SAMPLE_COUNT ELSE 1

\* lib.rs:354-356
take_multisample(s) ==
    IF is_some(s.multisample_texture)
    THEN Emit([s EXCEPT !.multisample_texture = None], "destroy", "multisample")
    ELSE s

\* no multisample texture created
resize_multisample_skipped(s) == s

\* lib.rs:350-363
resize_multisample(s) ==
    IF s.multisampling_enabled
    THEN create_multisample_texture(take_multisample(s))
    ELSE s

\* the destroyed depth texture kept
resize_depth_skipped(s) == s

\* lib.rs:365-367
resize_depth(s) == create_depth_texture(s, resize_sample_count(s))

\* the aspect assigned, the matrix not written
resize_camera_unwritten(s, width, height) ==
    [s EXCEPT !.camera.aspect = F32Div(width, height)]

\* lib.rs:369-372
resize_camera(s, width, height) ==
    write_camera([s EXCEPT !.camera.aspect = F32Div(width, height)])

\* lib.rs:340-374
resize(s, width, height) ==
    IF resize_guard(width, height)
    THEN resize_camera(
           resize_depth(resize_multisample(destroy_depth(
             configure(s, width, height)))),
           width, height)
    ELSE s

\* lib.rs:377
destroy_grid(s) ==
    Emit([s EXCEPT !.meshgrid_buffers = GridBuffers_destroy(@)],
         "destroy", "grid")

\* lib.rs:384 (and 213): the generated buffers become State's
install_buffers(s) ==
    [s EXCEPT !.meshgrid_buffers = s.local[1], !.local = None]

\* the generated buffers installed without an evaluation
install_unevaluated(s) ==
    IF s.panicked THEN s
    ELSE [s EXCEPT !.meshgrid_buffers = s.local[1], !.local = None]

\* lib.rs:383-384
evaluate_and_install(s) ==
    IF s.panicked THEN s ELSE install_buffers(evaluate_buffers(s))

\* lib.rs:376-385
set_grid_resolution(s, width, height) ==
    evaluate_and_install(
        generate_buffers(destroy_grid(s), {s.meshgrid_buffers.id},
                         width, height))

\* the acquired image as color attachment whatever the flag
render_pass_direct(s) ==
    [view           |-> [texture |-> 0],
     resolve_target |-> None,
     depth_view     |-> s.depth_texture_view,
     pipeline       |-> s.render_pipeline,
     vertex_buffer  |-> s.meshgrid_buffers.id,
     index_buffer   |-> s.meshgrid_buffers.id,
     draw_indexed   |-> <<[indices     |-> <<U(0), s.meshgrid_buffers.index_count>>,
                          base_vertex |-> 0,
                          instances   |-> <<0, 1>>]>>]

\* lib.rs:397-445: the render pass
render_pass(s) ==
    [view           |-> IF s.multisampling_enabled
                        THEN s.multisample_texture_view[1]
                        ELSE [texture |-> 0],
     resolve_target |-> IF s.multisampling_enabled
                        THEN Some([texture |-> 0])
                        ELSE None,
     depth_view     |-> s.depth_texture_view,
     pipeline       |-> s.render_pipeline,
     vertex_buffer  |-> s.meshgrid_buffers.id,
     index_buffer   |-> s.meshgrid_buffers.id,
     draw_indexed   |-> <<[indices     |-> <<U(0), s.meshgrid_buffers.index_count>>,
                          base_vertex |-> 0,
                          instances   |-> <<0, 1>>]>>]

\* lib.rs:387-451.  Texture 0 is the image acquired from the surface.
render(s) ==
    IF s.multisampling_enabled /\ ~is_some(s.multisample_texture_view)
    THEN Panic(s)
    ELSE Emit(Emit([s EXCEPT !.frame = Some(render_pass(s))],
                   "submit", "render"),
              "present", "surface")

\* lib.rs:453-460
move_camera(s, distance, zenith, azimuth) ==
    write_camera([s EXCEPT !.camera =
        rotate_azimuth(rotate_zenith(move_distance(@, distance), zenith),
                       azimuth)])

\* lib.rs:465, 472: the request is for the state multisampling is in
already_set_never(s, enabled) == FALSE

already_set(s, enabled) == s.multisampling_enabled = enabled

\* lib.rs:469
enable_multisample(s) == [s EXCEPT !.multisampling_enabled = TRUE]

\* lib.rs:476-484
disable_multisample_keep(s) ==
    Emit([s EXCEPT !.multisampling_enabled = FALSE,
                   !.multisample_texture[1].destroyed = TRUE],
         "destroy", "multisample")

disable_multisample(s) ==
    Emit([s EXCEPT !.multisampling_enabled = FALSE,
                   !.multisample_texture = None,
                   !.multisample_texture_view = None],
         "destroy", "multisample")

\* lib.rs:488
resize_current(s) == resize(s, s.config.width, s.config.height)

\* lib.rs:462-501
set_multisampling_enabled(s, enabled) ==
    IF already_set(s, enabled) THEN s
    ELSE IF ~enabled /\ ~is_some(s.multisample_texture)
    THEN Panic([s EXCEPT !.multisampling_enabled = FALSE])
    ELSE create_render_pipeline(
           resize_current(IF enabled THEN enable_multisample(s)
                          ELSE disable_multisample(s)),
           IF enabled THEN MSAA_SAMPLE_COUNT ELSE 1)

\* the fields before lib.rs:104
Blank(width, height, overflow_checks) ==
    [config                   |-> [width |-> width, height |-> height],
     multisampling_enabled    |-> FALSE,
     multisample_texture      |-> None,
     multisample_texture_view |-> None,
     depth_texture            |-> [id |-> 0],
     depth_texture_view       |-> [texture |-> 0],
     render_pipeline          |-> [sample_count |-> 0],
     meshgrid_buffers         |-> [id |-> 0],
     uniform_buffer           |-> [resolution |-> <<U(0), U(0)>>,
                                   x_range |-> <<0, 0>>, y_range |-> <<0, 0>>],
     camera                   |-> NewCamera(width, height),
     camera_buffer            |-> None,
     overflow_checks          |-> overflow_checks,
     panicked                 |-> FALSE,
     events                   |-> <<>>,
     gen                      |-> None,
     frame                    |-> None,
     local                    |-> None]

\* lib.rs:169-175
init_camera_buffer(s) ==
    [Emit(s, "create", "camera_buffer") EXCEPT
        !.camera_buffer = view_proj(s.camera)]

\* lib.rs:118-125: the grid generated and evaluated (the local
\* meshgrid_buffers, a field of Self at line 213)
new_generate(b) ==
    install_buffers(evaluate_buffers(
        generate_buffers(b, {}, U(255), U(255))))

\* lib.rs:134-226
new_finish(s, width, height) ==
    create_depth_texture(
      create_render_pipeline(
        init_camera_buffer(configure(s, width, height)),
        1),
      1)

\* lib.rs:98-227, without the readback feature.  Surface::configure (line
\* 138) panics on a zero width or height, so a State only ever exists for
\* width > 0 and height > 0.
new(width, height, overflow_checks) ==
    new_finish(new_generate(Blank(width, height, overflow_checks)),
               width, height)

(***************************************************************************)
(* The state machine                                                       *)
(***************************************************************************)
VARIABLES
    config, multisampling_enabled, multisample_texture,
    multisample_texture_view, depth_texture, depth_texture_view,
    render_pipeline, meshgrid_buffers, uniform_buffer, camera, camera_buffer,
    overflow_checks,  \* the build: TRUE when u32 overflow panics
    panicked,         \* an operation has panicked
    call,             \* the last operation and its arguments
    events,           \* the device and queue calls the last operation made
    gen,              \* the locals of the last generate_buffers call
    frame,            \* the render pass the last operation submitted, if any
    live,             \* resources created and not destroyed, by kind
    peak,             \* the most that were live at once during the last operation
    steps,            \* Camera method calls made (SpecCamera), evaluate_buffers
                      \* calls made (SpecEvaluator)
    targets,          \* the GridBuffers a user of meshgrid.rs holds (SpecEvaluator)
    evaluator,        \* the shader module the Evaluator was created with
    queue,            \* the command buffers the last call submitted (SpecEvaluator),
                      \* or a constructor has submitted so far (SpecReadback)
    readback          \* the readbacks of a constructor in progress (SpecReadback)

vars == <<config, multisampling_enabled, multisample_texture,
          multisample_texture_view, depth_texture, depth_texture_view,
          render_pipeline, meshgrid_buffers, uniform_buffer, camera,
          camera_buffer, overflow_checks, panicked, call, events, gen, frame,
          live, peak, steps, targets, evaluator, queue, readback>>

\* what State::new leaves of the four last: nothing is held beside the
\* State, its Evaluator runs evaluator.wgsl, no readback is in progress
NoReadback == [program |-> "none", pc |-> "done", todo |-> <<>>,
               signal |-> <<>>, mapped |-> {}, log |-> <<>>]

StateAlone(module) ==
    /\ targets = <<>>
    /\ evaluator = module
    /\ queue = <<>>
    /\ readback = NoReadback

\* the fields of State, and what persists beside them
fields == <<config, multisampling_enabled, multisample_texture,
            multisample_texture_view, depth_texture, depth_texture_view,
            render_pipeline, meshgrid_buffers, uniform_buffer, camera,
            camera_buffer, overflow_checks, panicked, gen, live>>

MaxDim == 2

MaxCameraCalls == 3

Self ==
    [config                   |-> config,
     multisampling_enabled    |-> multisampling_enabled,
     multisample_texture      |-> multisample_texture,
     multisample_texture_view |-> multisample_texture_view,
     depth_texture            |-> depth_texture,
     depth_texture_view       |-> depth_texture_view,
     render_pipeline          |-> render_pipeline,
     meshgrid_buffers         |-> meshgrid_buffers,
     uniform_buffer           |-> uniform_buffer,
     camera                   |-> camera,
     camera_buffer            |-> camera_buffer,
     overflow_checks          |-> overflow_checks,
     panicked                 |-> panicked,
     events                   |-> <<>>,
     gen                      |-> gen,
     frame                    |-> None,
     local                    |-> None]

Delta(e, kind) ==
    IF e.obj # kind THEN 0
    ELSE IF e.op = "create" THEN 1
    ELSE IF e.op = "destroy" THEN -1
    ELSE 0

LiveStep(l, e) == [kind \in DOMAIN l |-> l[kind] + Delta(e, kind)]

RECURSIVE LiveAfter(_, _)
LiveAfter(l, evs) ==
    IF evs = <<>> THEN l ELSE LiveAfter(LiveStep(l, evs[1]), Tail(evs))

Larger(a, b) == IF a > b THEN a ELSE b

RECURSIVE PeakLive(_, _)
PeakLive(l, evs) ==
    IF evs = <<>> THEN l
    ELSE [kind \in DOMAIN l |->
            Larger(l[kind], PeakLive(LiveStep(l, evs[1]), Tail(evs))[kind])]

NoneLive == [depth |-> 0, multisample |-> 0, grid |-> 0]

\* Handles are opaque: a state is kept up to a renaming of its texture ids
\* and of its GridBuffers id, each id renamed to the rank of its first
\* appearance among the fields below (a view of a texture no field holds any
\* more keeps an id of its own).
TextureRefs(s) ==
    <<s.depth_texture.id, s.depth_texture_view.texture>>
    \o [i \in DOMAIN s.multisample_texture |-> s.multisample_texture[i].id]
    \o [i \in DOMAIN s.multisample_texture_view |->
          s.multisample_texture_view[i].texture]

RankIn(refs, v) ==
    Cardinality({refs[j] : j \in 1..(CHOOSE i \in 1..Len(refs) :
                    refs[i] = v /\ \A k \in 1..(i - 1) : refs[k] # v)})

CanonIds(s, refs, grid) ==
    [s EXCEPT
       !.depth_texture.id = RankIn(refs, @),
       !.depth_texture_view.texture = RankIn(refs, @),
       !.multisample_texture =
           [i \in DOMAIN @ |-> [@[i] EXCEPT !.id = RankIn(refs, @)]],
       !.multisample_texture_view =
           [i \in DOMAIN @ |-> [@[i] EXCEPT !.texture = RankIn(refs, @)]],
       !.meshgrid_buffers.id = 1,
       !.meshgrid_buffers.evaluator_bind_group.vertex_buffer =
           IF @ = grid THEN 1 ELSE 2,
       !.meshgrid_buffers.submitted[2].dispatches[1].bind_group.vertex_buffer =
           IF @ = grid THEN 1 ELSE 2]

Canon(s) ==
    IF s.events = <<>> THEN s
    ELSE CanonIds(s, TextureRefs(s), s.meshgrid_buffers.id)

StateIs(s, c, l) ==
    /\ config = s.config
    /\ multisampling_enabled = s.multisampling_enabled
    /\ multisample_texture = s.multisample_texture
    /\ multisample_texture_view = s.multisample_texture_view
    /\ depth_texture = s.depth_texture
    /\ depth_texture_view = s.depth_texture_view
    /\ render_pipeline = s.render_pipeline
    /\ meshgrid_buffers = s.meshgrid_buffers
    /\ uniform_buffer = s.uniform_buffer
    /\ camera = s.camera
    /\ camera_buffer = s.camera_buffer
    /\ overflow_checks = s.overflow_checks
    /\ panicked = s.panicked
    /\ call = c
    /\ events = s.events
    /\ gen = s.gen
    /\ frame = s.frame
    /\ live = LiveAfter(l, s.events)
    /\ peak = PeakLive(l, s.events)
    /\ steps = 0

Init ==
    \E width, height \in 1..MaxDim, oc \in BOOLEAN :
        /\ StateIs(new(width, height, oc),
                   [op |-> "new", args |-> <<width, height>>], NoneLive)
        /\ StateAlone("evaluator.wgsl")

InstallFields(s) ==
    /\ config' = s.config
    /\ multisampling_enabled' = s.multisampling_enabled
    /\ multisample_texture' = s.multisample_texture
    /\ multisample_texture_view' = s.multisample_texture_view
    /\ depth_texture' = s.depth_texture
    /\ depth_texture_view' = s.depth_texture_view
    /\ render_pipeline' = s.render_pipeline
    /\ meshgrid_buffers' = s.meshgrid_buffers
    /\ uniform_buffer' = s.uniform_buffer
    /\ camera' = s.camera
    /\ camera_buffer' = s.camera_buffer
    /\ overflow_checks' = s.overflow_checks
    /\ panicked' = s.panicked
    /\ events' = s.events
    /\ gen' = s.gen
    /\ frame' = s.frame
    /\ live' = LiveAfter(live, s.events)
    /\ peak' = PeakLive(live, s.events)

Install(s, c) ==
    /\ call' = c
    /\ InstallFields(s)
    /\ UNCHANGED <<targets, evaluator, queue, readback>>

\* One public operation, run to completion: c names it, r is its result.
Run(c, r) == ~panicked /\ Install(Canon(r), c)

\* the u32 arguments set_grid_resolution is called with
GridResolutions ==
    { <<U(0), U(5)>>, <<U(1), U(1)>>, <<U(2), U(2)>>, <<U(5), U(5)>>,
      <<U(31), U(32)>>, <<U(255), U(255)>>,
      <<BigShl(U(1), 14), BigShl(U(1), 14)>>,
      <<BigShl(U(1), 16), BigShl(U(1), 16)>> }

\* the f32 arguments move_camera is called with
CameraMoves ==
    { <<F32(1, 0), F32(4, 0), TAU>>,
      <<FNeg(F32(200, 0)), FNeg(F32(4, 0)), FNeg(TAU)>> }

Resize ==
    \E width, height \in 0..MaxDim :
        /\ Run([op |-> "resize", args |-> <<width, height>>],
               resize(Self, width, height))
        /\ UNCHANGED steps

SetMultisamplingEnabled ==
    \E enabled \in BOOLEAN :
        /\ Run([op |-> "set_multisampling_enabled", args |-> <<enabled>>],
               set_multisampling_enabled(Self, enabled))
        /\ UNCHANGED steps

SetGridResolution ==
    \E res \in GridResolutions :
        /\ Run([op |-> "set_grid_resolution", args |-> res],
               set_grid_resolution(Self, res[1], res[2]))
        /\ UNCHANGED steps

Render ==
    /\ Run([op |-> "render", args |-> <<>>], render(Self))
    /\ UNCHANGED steps

MoveCamera ==
    \E m \in CameraMoves :
        /\ Run([op |-> "move_camera", args |-> m],
               move_camera(Self, m[1], m[2], m[3]))
        /\ UNCHANGED steps

Next ==
    \/ Resize
    \/ SetMultisamplingEnabled
    \/ SetGridResolution
    \/ Render
    \/ MoveCamera

Spec == Init /\ [][Next]_vars

(***************************************************************************)
(* The Camera alone: its three mutation methods, called one at a time      *)
(***************************************************************************)
\* the f32 angles rotate_zenith is called with
ZenithAngles == { F32(1, 0), F32(4, 0), FNeg(F32(4, 0)) }

\* the f32 angles rotate_azimuth is called with; the last is the negative
\* angle that passes the initial azimuth by 2^-23
AzimuthAngles ==
    { F32(1, 0), TAU, FNeg(TAU),
      FNeg(FAdd(F32(9287437, -23), F32(1, -23))) }

\* the f32 distances move_distance is called with
Distances == { F32(1, -1), F32(2, 0), FNeg(F32(200, 0)) }

CameraCall(c, cam) ==
    /\ steps' = steps + 1
    /\ call' = c
    /\ camera' = cam
    /\ UNCHANGED <<config, multisampling_enabled, multisample_texture,
                   multisample_texture_view, depth_texture,
                   depth_texture_view, render_pipeline, meshgrid_buffers,
                   uniform_buffer, camera_buffer, overflow_checks, panicked,
                   events, gen, frame, live, peak, targets, evaluator, queue,
                   readback>>

RotateZenith ==
    \E angle \in ZenithAngles :
        /\ steps < MaxCameraCalls
        /\ CameraCall([op |-> "rotate_zenith", args |-> <<angle>>],
                      rotate_zenith(camera, angle))

RotateAzimuth ==
    \E angle \in AzimuthAngles :
        /\ steps < MaxCameraCalls
        /\ CameraCall([op |-> "rotate_azimuth", args |-> <<angle>>],
                      rotate_azimuth(camera, angle))

MoveDistance ==
    \E distance \in Distances :
        /\ steps < MaxCameraCalls
        /\ CameraCall([op |-> "move_distance", args |-> <<distance>>],
                      move_distance(camera, distance))

NextCamera ==
    \/ RotateZenith
    \/ RotateAzimuth
    \/ MoveDistance

SpecCamera == Init /\ [][NextCamera]_vars

(***************************************************************************)
(* Properties                                                              *)
(***************************************************************************)
\* C1: between operations, multisample_texture is Some exactly when
\* multisampling_enabled is true, and multisample_texture_view is Some
\* exactly when multisample_texture is Some.
C1_MultisampleTextureIffEnabled ==
    /\ is_some(multisample_texture) <=> multisampling_enabled
    /\ is_some(multisample_texture_view) <=> is_some(multisample_texture)

\* multisampling has just been switched on and the texture and view built
C1_Witness ==
    /\ call = [op |-> "set_multisampling_enabled", args |-> <<TRUE>>]
    /\ events # <<>>
    /\ is_some(multisample_texture)
    /\ is_some(multisample_texture_view)

\* C2: between operations the depth texture's sample count equals the sample
\* count the render pipeline was built with, and both are MSAA_SAMPLE_COUNT
\* when multisampling_enabled is true and 1 when it is false.
C2_DepthSampleCountIsPipelineSampleCount ==
    /\ depth_texture.sample_count = render_pipeline.sample_count
    /\ render_pipeline.sample_count =
           IF multisampling_enabled THEN MSAA_SAMPLE_COUNT ELSE 1

\* a resize that rebuilt the depth texture while multisampling was on
C2_Witness ==
    /\ call.op = "resize"
    /\ events # <<>>
    /\ multisampling_enabled
    /\ depth_texture.sample_count = MSAA_SAMPLE_COUNT

ZenithInRange ==
    /\ ~FLt(camera.zenith, ZENITH_CLAMP)
    /\ ~FLt(FSub(PI, ZENITH_CLAMP), camera.zenith)

AzimuthInRange ==
    /\ ~FLt(camera.azimuth, FZero)
    /\ FLt(camera.azimuth, TAU)

DistanceInRange ==
    /\ ~FLt(camera.distance, CLOSEST)
    /\ ~FLt(FARTHEST, camera.distance)

\* C3: after any sequence of rotate_zenith, rotate_azimuth and move_distance
\* calls from the initial camera, zenith is in [ZENITH_CLAMP, PI -
\* ZENITH_CLAMP], azimuth is in [0, 2*PI) with 2*PI excluded, and distance
\* is in [CLOSEST, FARTHEST].
C3_CameraWithinClamps ==
    ZenithInRange /\ AzimuthInRange /\ DistanceInRange

GenIsAtLeast2x2 ==
    /\ gen # None
    /\ BigLe(U(2), gen[1].resolution[1])
    /\ BigLe(U(2), gen[1].resolution[2])

\* w * h and (w - 1) * (h - 1) * 6 as mathematical integers
ExactVertexCount(res) == BigMul(res[1], res[2])

ExactIndexCount(res) ==
    BigMul(BigMul(BigSub(res[1], U(1)), BigSub(res[2], U(1))), U(6))

\* C4: for every resolution (w, h) with w >= 2 and h >= 2, generate_buffers
\* computes vertex_count = w * h and returns GridBuffers whose index_count is
\* (w - 1) * (h - 1) * 6; the index_count render passes to draw_indexed is
\* that of the most recently generated grid.
C4_VertexAndIndexCount ==
    /\ GenIsAtLeast2x2 =>
          /\ ~panicked
          /\ gen[1].vertex_count = ExactVertexCount(gen[1].resolution)
          /\ meshgrid_buffers.index_count = ExactIndexCount(gen[1].resolution)
    /\ frame # None =>
          frame[1].draw_indexed[1].indices = <<U(0), gen[1].index_count>>

\* C5: for all (w, h) with w, h >= 2 the vertex buffer's byte size is
\* 24 * (w * h) and the index buffer's is 4 * ((w - 1) * (h - 1) * 6) as
\* mathematical integers: no wrap-around and no overflow abort.
C5_BufferByteSizes ==
    GenIsAtLeast2x2 =>
        /\ ~panicked
        /\ meshgrid_buffers.vertex_buffer.size =
               BigMul(U(24), ExactVertexCount(gen[1].resolution))
        /\ meshgrid_buffers.index_buffer.size =
               BigMul(U(4), ExactIndexCount(gen[1].resolution))

\* chunks = ceil(n / per), stated without the shift and the mask:
\* per * chunks >= n > per * (chunks - 1)
IsCeilDiv(chunks, n, per) ==
    /\ BigLe(n, BigMul(U(per), chunks))
    /\ chunks = <<>> \/ BigLt(BigMul(U(per), BigSub(chunks, U(1))), n)

\* C6: the chunk counts generate_buffers computes are ceil(w / 16) and
\* ceil(h / 16), both dispatches of the generation pass use them, and
\* evaluator_dispatch_count, which the evaluation pass dispatches, is
\* ceil(vertex_count / 256).
C6_DispatchCountsAreCeilings ==
    gen # None =>
        /\ \A i \in 1..2 :
              IsCeilDiv(gen[1].grid_chunks[i], gen[1].resolution[i], 16)
        /\ ~panicked =>
              /\ \A d \in 1..2 :
                    meshgrid_buffers.submitted[1].dispatches[d].workgroups =
                        <<gen[1].grid_chunks[1], gen[1].grid_chunks[2], U(1)>>
              /\ IsCeilDiv(meshgrid_buffers.evaluator_dispatch_count,
                           gen[1].vertex_count, 256)
              /\ meshgrid_buffers.submitted[2].dispatches[1].workgroups =
                     <<meshgrid_buffers.evaluator_dispatch_count, U(1), U(1)>>

\* the grid (31, 32) has been generated: 2 by 2 workgroups
C6_Witness ==
    /\ call = [op |-> "set_grid_resolution", args |-> <<U(31), U(32)>>]
    /\ ~panicked
    /\ gen[1].grid_chunks = <<U(2), U(2)>>
    /\ meshgrid_buffers.evaluator_dispatch_count = U(4)

\* C7: resize(w, h) with w = 0 or h = 0 changes no field of State, makes no
\* call on the device, the queue or the surface, and so destroys and creates
\* nothing.
C7_ZeroResizeIsNoOp ==
    [][(call'.op = "resize" /\ (call'.args[1] = 0 \/ call'.args[2] = 0))
         => (UNCHANGED fields /\ events' = <<>>)]_vars

\* a zero-sized resize has been made while multisampling was on
C7_Witness ==
    /\ call.op = "resize"
    /\ call.args[1] = 0 \/ call.args[2] = 0
    /\ multisampling_enabled
    /\ events = <<>>

\* C8: set_multisampling_enabled(e) when multisampling_enabled is already e
\* changes no field of State and makes no call on the device, the queue or
\* the surface.
C8_SameStateIsNoOp ==
    [][(call'.op = "set_multisampling_enabled"
          /\ call'.args[1] = multisampling_enabled)
         => (UNCHANGED fields /\ events' = <<>>)]_vars

\* multisampling was asked on when it was on
C8_Witness ==
    /\ call = [op |-> "set_multisampling_enabled", args |-> <<TRUE>>]
    /\ multisampling_enabled
    /\ events = <<>>

\* C9: at every step of every operation at most one depth texture, one
\* multisample texture and one GridBuffers set are live; after multisampling
\* is switched off no multisample texture is live and the depth texture has
\* sample count 1.
C9_DestroyBeforeReplace ==
    /\ \A kind \in DOMAIN peak : peak[kind] <= 1 /\ live[kind] <= 1
    /\ (call = [op |-> "set_multisampling_enabled", args |-> <<FALSE>>]
          /\ events # <<>>)
         => (live.multisample = 0 /\ depth_texture.sample_count = 1)

\* multisampling has been switched on and off again
C9_Witness ==
    /\ call = [op |-> "set_multisampling_enabled", args |-> <<FALSE>>]
    /\ events # <<>>
    /\ live = [depth |-> 1, multisample |-> 0, grid |-> 1]
    /\ peak = [depth |-> 1, multisample |-> 1, grid |-> 1]

\* C10: generate_buffers is only ever executed with w >= 2 and h >= 2.
C10_GenerateOnlyAtLeast2x2 ==
    gen # None => GenIsAtLeast2x2

HasEvent(op, obj) == \E i \in DOMAIN events : events[i] = [op |-> op, obj |-> obj]

\* C11: between operations the camera uniform buffer holds view_proj() of
\* the current camera, and every operation that changes a camera field
\* (move_camera, a resize that is not ignored, a multisampling toggle) has
\* written the buffer before returning.
C11_CameraBufferIsViewProj ==
    /\ camera_buffer = view_proj(camera)
    /\ (events # <<>> /\ call.op \in {"move_camera", "resize",
                                      "set_multisampling_enabled"})
         => HasEvent("write_buffer", "camera_buffer")

\* a resize to a surface that is not square has changed the aspect
C11_Witness ==
    /\ call.op = "resize"
    /\ events # <<>>
    /\ call.args[1] # call.args[2]
    /\ camera.aspect = F32Div(call.args[1], call.args[2])
    /\ camera_buffer.aspect = camera.aspect

\* C13: what render binds is live: the view of the depth texture is of the
\* depth texture State holds, which is not destroyed; with multisampling on
\* the multisample view is of the multisample texture State holds, which is
\* not destroyed; the grid's vertex and index buffers are not destroyed; and
\* a submitted render pass bound exactly these.
C13_RenderBindsLiveResources ==
    ~panicked =>
        /\ depth_texture_view.texture = depth_texture.id
        /\ ~depth_texture.destroyed
        /\ ~meshgrid_buffers.vertex_buffer.destroyed
        /\ ~meshgrid_buffers.index_buffer.destroyed
        /\ multisampling_enabled =>
              /\ is_some(multisample_texture)
              /\ is_some(multisample_texture_view)
              /\ multisample_texture_view[1].texture = multisample_texture[1].id
              /\ ~multisample_texture[1].destroyed
        /\ frame # None =>
              /\ frame[1].depth_view.texture = depth_texture.id
              /\ frame[1].vertex_buffer = meshgrid_buffers.id
              /\ frame[1].index_buffer = meshgrid_buffers.id
              /\ multisampling_enabled =>
                    frame[1].view.texture = multisample_texture[1].id

\* a frame has been rendered with multisampling on
C13_Witness ==
    /\ call.op = "render"
    /\ frame # None
    /\ multisampling_enabled
    /\ frame[1].view.texture = multisample_texture[1].id
    /\ live = [depth |-> 1, multisample |-> 1, grid |-> 1]

EventIndex(op, obj) ==
    CHOOSE i \in DOMAIN events : events[i] = [op |-> op, obj |-> obj]

\* C14: the grid State holds (the one render draws) has had its generation
\* pass submitted and after it an evaluator pass over its vertex buffer;
\* new and set_grid_resolution submit the two in that order before they
\* return, and render submits after both.
C14_GenerateEvaluateRender ==
    ~panicked =>
        /\ Len(meshgrid_buffers.submitted) >= 2
        /\ meshgrid_buffers.submitted[1].pass = "generate"
        /\ \E k \in 2..Len(meshgrid_buffers.submitted) :
              /\ meshgrid_buffers.submitted[k].pass = "evaluate"
              /\ \E d \in DOMAIN meshgrid_buffers.submitted[k].dispatches :
                    meshgrid_buffers.submitted[k].dispatches[d]
                        .bind_group.vertex_buffer = meshgrid_buffers.id
        /\ call.op \in {"new", "set_grid_resolution"} =>
              /\ HasEvent("submit", "generate")
              /\ HasEvent("submit", "evaluate")
              /\ EventIndex("submit", "generate")
                    < EventIndex("submit", "evaluate")
              /\ ~HasEvent("submit", "render")
        /\ frame # None =>
              /\ HasEvent("submit", "render")
              /\ ~HasEvent("submit", "generate")

\* a frame has been rendered from a grid set_grid_resolution installed
C14_Witness ==
    /\ call.op = "render"
    /\ frame # None
    /\ gen[1].resolution = <<U(5), U(5)>>
    /\ meshgrid_buffers.index_count = U(96)
    /\ Len(meshgrid_buffers.submitted) = 2

\* the image acquired from the surface
AcquiredImage == [texture |-> 0]

\* C15: render picks the color attachment from multisampling_enabled alone
\* (the multisample view, resolved into the acquired image, when it is true;
\* the acquired image and no resolve target when it is false), issues exactly
\* one indexed draw over 0..index_count of the grid State holds, and changes
\* no field of State.
C15_RenderAttachmentAndDraw ==
    [][(call'.op = "render")
         => /\ UNCHANGED fields
            /\ frame' # None
            /\ IF multisampling_enabled
               THEN /\ frame'[1].view = multisample_texture_view[1]
                    /\ frame'[1].view # AcquiredImage
                    /\ frame'[1].resolve_target = Some(AcquiredImage)
               ELSE /\ frame'[1].view = AcquiredImage
                    /\ frame'[1].resolve_target = None
            /\ Len(frame'[1].draw_indexed) = 1
            /\ frame'[1].draw_indexed[1].indices =
                   <<U(0), meshgrid_buffers.index_count>>]_vars

\* a frame rendered into the multisample view and resolved
C15_Witness ==
    /\ call.op = "render"
    /\ frame # None
    /\ multisampling_enabled
    /\ frame[1].resolve_target = Some(AcquiredImage)
    /\ Len(frame[1].draw_indexed) = 1

(***************************************************************************)
(* meshgrid.rs used directly: a Generator, one Evaluator, and the          *)
(* GridBuffers generated and evaluated with them                           *)
(***************************************************************************)
MaxTargets == 2

MaxEvaluations == 2

\* The shader modules create_evaluator is given.  Each is a deterministic
\* function of one vertex of the read-write storage buffer at binding 0: the
\* attributes its entry point reads and the attributes it writes.
Evaluators ==
    { [entry |-> "height",  reads |-> {"position"}, writes |-> {"z"}],
      [entry |-> "color",   reads |-> {"z"},        writes |-> {"color"}],
      [entry |-> "raise",   reads |-> {"z"},        writes |-> {"z"}] }

\* a vertex as the generation pass leaves it, and before it
GeneratedVertex == [position |-> "grid", z |-> 0, color |-> 0]

NoVertex == [position |-> "none", z |-> 0, color |-> 0]

\* every invocation adds to z what it finds there
invoke_feedback(module, v) == [v EXCEPT !.z = @ + 1]

\* one invocation of the entry point on one vertex
invoke(module, v) ==
    IF module.entry = "height" THEN [v EXCEPT !.z = 7]
    ELSE IF module.entry = "color" THEN [v EXCEPT !.color = v.z]
    ELSE [v EXCEPT !.z = @ + 1]

\* the dispatches ds of one compute pass, in encoding order, on the vertex
\* buffer id: those bound to it run the shader over it
RECURSIVE run_dispatches(_, _, _, _)
run_dispatches(module, id, ds, v) ==
    IF ds = <<>> THEN v
    ELSE run_dispatches(module, id, Tail(ds),
            IF ds[1].bind_group.vertex_buffer = id /\ ds[1].workgroups[1] # <<>>
            THEN invoke(module, v)
            ELSE v)

\* the passes ps submitted on a GridBuffers, in submission order
RECURSIVE run_passes(_, _, _, _)
run_passes(module, id, ps, v) ==
    IF ps = <<>> THEN v
    ELSE run_passes(module, id, Tail(ps),
            IF ps[1].pass = "generate" THEN GeneratedVertex
            ELSE run_dispatches(module, id, ps[1].dispatches, v))

\* what the vertex buffer of g holds once the queue has run
vertex_data(module, g) == run_passes(module, g.id, g.submitted, NoVertex)

\* the resolutions generate_buffers is called with
TargetResolutions == { <<U(2), U(2)>>, <<U(31), U(32)>> }

\* the slices evaluate_buffers is called with, as indices into targets
TargetSelections == { <<>>, <<1>>, <<2>>, <<1, 2>>, <<2, 1>>, <<1, 1>> }

TargetIds == {targets[i].id : i \in DOMAIN targets} \cup {meshgrid_buffers.id}

InitEvaluator ==
    \E oc \in BOOLEAN, module \in Evaluators :
        /\ StateIs(new(1, 1, oc),
                   [op |-> "create_evaluator", args |-> <<module.entry>>],
                   NoneLive)
        /\ targets = <<>>
        /\ evaluator = module
        /\ queue = <<>>
        /\ readback = NoReadback

\* r: the result of generate_buffers
TargetGenerated(c, r) ==
    /\ call' = c
    /\ targets' = IF r.panicked THEN targets ELSE Append(targets, r.local[1])
    /\ uniform_buffer' = r.uniform_buffer
    /\ gen' = r.gen
    /\ events' = r.events
    /\ panicked' = r.panicked
    /\ queue' = <<>>
    /\ UNCHANGED <<config, multisampling_enabled, multisample_texture,
                   multisample_texture_view, depth_texture,
                   depth_texture_view, render_pipeline, meshgrid_buffers,
                   camera, camera_buffer, overflow_checks, frame, live, peak,
                   steps, evaluator, readback>>

GenerateTarget ==
    \E res \in TargetResolutions :
        /\ ~panicked
        /\ Len(targets) < MaxTargets
        /\ TargetGenerated([op |-> "generate_buffers", args |-> res],
                           generate_buffers(Self, TargetIds, res[1], res[2]))

\* pass: the command buffer evaluate_buffers submitted for the targets sel
TargetsEvaluated(sel, pass) ==
    /\ call' = [op |-> "evaluate_buffers", args |-> sel]
    /\ queue' = <<pass>>
    /\ events' = <<[op |-> "submit", obj |-> "evaluate"]>>
    /\ targets' = [i \in DOMAIN targets |->
                     IF \E k \in DOMAIN sel : sel[k] = i
                     THEN [targets[i] EXCEPT !.submitted = Append(@, pass)]
                     ELSE targets[i]]
    /\ steps' = steps + 1
    /\ UNCHANGED <<config, multisampling_enabled, multisample_texture,
                   multisample_texture_view, depth_texture,
                   depth_texture_view, render_pipeline, meshgrid_buffers,
                   uniform_buffer, camera, camera_buffer, overflow_checks,
                   panicked, gen, frame, live, peak, evaluator, readback>>

EvaluateTargets ==
    \E sel \in TargetSelections :
        /\ ~panicked
        /\ steps < MaxEvaluations
        /\ \A k \in DOMAIN sel : sel[k] \in DOMAIN targets
        /\ TargetsEvaluated(sel,
               evaluate_pass([k \in DOMAIN sel |-> targets[sel[k]]]))

NextEvaluator ==
    \/ GenerateTarget
    \/ EvaluateTargets

SpecEvaluator == InitEvaluator /\ [][NextEvaluator]_vars

(***************************************************************************)
(* The readbacks: a constructor (an async fn) copies a buffer into a       *)
(* staging buffer, asks for it to be mapped and awaits the one-shot        *)
(* channel the map callback sends on; the device runs the callback.        *)
(* readback.pc is the statement the constructor is at, readback.todo the   *)
(* readbacks it has still to make, the first being the one in progress.    *)
(***************************************************************************)
\* what the callback of map_async is given, or "Canceled" when it is dropped
\* without being called
MapResults == {"Ok", "Err", "Canceled"}

\* lib.rs:127-132: print_vertices then print_indices on the buffers g, each
\* creating its own staging buffer of the size of its source
print_plan(g) ==
    <<[op |-> "print_vertices", source |-> "vertex_buffer", staging |-> 1,
       bytes |-> g.vertex_buffer.size, compute |-> <<>>],
      [op |-> "print_indices", source |-> "index_buffer", staging |-> 2,
       bytes |-> g.index_buffer.size, compute |-> <<>>]>>

\* mesh_generator.rs:116-184: the vertex and the index buffer through the
\* one result_buffer, the first copy in the command buffer of the generation
generator_plan ==
    <<[op |-> "MeshGenerator::new", source |-> "vertex_buffer", staging |-> 1,
       bytes |-> "n_vertex_bytes",
       compute |-> <<[pipeline |-> "gen_vertex_pipeline",
                      workgroups |-> <<2, 2, 1>>],
                     [pipeline |-> "gen_index_pipeline",
                      workgroups |-> <<2, 2, 1>>]>>],
      [op |-> "MeshGenerator::new", source |-> "index_buffer", staging |-> 1,
       bytes |-> "n_index_bytes", compute |-> <<>>]>>

Reading(program, plan) ==
    [program |-> program, pc |-> "copy", todo |-> plan, signal |-> None,
     mapped |-> {}, log |-> <<>>]

Logged(rb, ev, res) ==
    [rb EXCEPT !.log = Append(@, [ev |-> ev, staging |-> rb.todo[1].staging,
                                  res |-> res])]

At(rb, pc) == [rb EXCEPT !.pc = pc]

\* State::new with the readback feature, at lib.rs:127, and
\* MeshGenerator::new at mesh_generator.rs:116, which has no State
InitReadback ==
    /\ targets = <<>>
    /\ evaluator = "evaluator.wgsl"
    /\ queue = <<>>
    /\ \/ \E width, height \in 1..MaxDim, oc \in BOOLEAN :
            /\ StateIs(new_generate(Blank(width, height, oc)),
                       [op |-> "new", args |-> <<width, height>>], NoneLive)
            /\ readback = Reading("State::new", print_plan(meshgrid_buffers))
       \/ /\ StateIs(Blank(1, 1, FALSE),
                     [op |-> "MeshGenerator::new", args |-> <<>>], NoneLive)
          /\ readback = Reading("MeshGenerator::new", generator_plan)

\* meshgrid.rs:302-311, 344-353; mesh_generator.rs:116-134, 160-165
SubmitCopy ==
    /\ ~panicked
    /\ readback.pc = "copy"
    /\ queue' = Append(queue, [compute |-> readback.todo[1].compute,
                               copy |-> [source  |-> readback.todo[1].source,
                                         staging |-> readback.todo[1].staging,
                                         bytes   |-> readback.todo[1].bytes]])
    /\ readback' = At(Logged(readback, "submit_copy", None), "map_async")
    /\ UNCHANGED <<fields, call, events, frame, peak, steps, targets,
                   evaluator>>

\* meshgrid.rs:315-318: a new channel, its sender moved into the callback
MapAsync ==
    /\ ~panicked
    /\ readback.pc = "map_async"
    /\ readback' = [At(Logged(readback, "map_async", None), "await")
                      EXCEPT !.signal = None]
    /\ UNCHANGED <<fields, call, events, frame, peak, steps, targets,
                   evaluator, queue>>

\* the staging buffers mapped once the map of staging has ended with res
mapped_after(mapped, staging, res) ==
    IF res = "Ok" THEN mapped \cup {staging} ELSE mapped

\* meshgrid.rs:316-318: the device ends the map and runs the callback, which
\* sends the result; or drops it
MapCompletes ==
    \E res \in MapResults :
        /\ ~panicked
        /\ readback.pc = "await"
        /\ readback.signal = None
        /\ readback' = [readback EXCEPT
                          !.signal = Some(res),
                          !.mapped = mapped_after(@, readback.todo[1].staging,
                                                  res)]
        /\ UNCHANGED <<fields, call, events, frame, peak, steps, targets,
                       evaluator, queue>>

\* meshgrid.rs:319-322: rx.await ends when the channel holds a result or has
\* lost its sender; the two expect panic on anything but Ok(Ok(()))
Await ==
    /\ ~panicked
    /\ readback.pc = "await"
    /\ is_some(readback.signal)
    /\ readback' = At(Logged(readback, "signal", readback.signal),
                      IF readback.signal = Some("Ok") THEN "read" ELSE "panic")
    /\ panicked' = (readback.signal # Some("Ok"))
    /\ UNCHANGED <<config, multisampling_enabled, multisample_texture,
                   multisample_texture_view, depth_texture,
                   depth_texture_view, render_pipeline, meshgrid_buffers,
                   uniform_buffer, camera, camera_buffer, overflow_checks,
                   gen, live, call, events, frame, peak, steps, targets,
                   evaluator, queue>>

\* meshgrid.rs:323-329: get_mapped_range and the loop over it
ReadMapped ==
    /\ ~panicked
    /\ readback.pc = "read"
    /\ readback' = At(Logged(readback, "read", None), "unmap")
    /\ UNCHANGED <<fields, call, events, frame, peak, steps, targets,
                   evaluator, queue>>

\* the buffer stays mapped
unmapped_kept(mapped, staging) == mapped

\* meshgrid.rs:330
unmapped(mapped, staging) == mapped \ {staging}

Unmap ==
    /\ ~panicked
    /\ readback.pc = "unmap"
    /\ readback' = [At(Logged(readback, "unmap", None),
                       IF Len(readback.todo) > 1 THEN "copy" ELSE "return")
                      EXCEPT !.mapped = unmapped(@, readback.todo[1].staging),
                             !.todo = Tail(@)]
    /\ UNCHANGED <<fields, call, events, frame, peak, steps, targets,
                   evaluator, queue>>

\* lib.rs:134-226: the rest of State::new
StateNewReturns ==
    /\ ~panicked
    /\ readback.pc = "return"
    /\ readback.program = "State::new"
    /\ InstallFields(new_finish(Self, config.width, config.height))
    /\ readback' = At(readback, "done")
    /\ UNCHANGED <<call, steps, targets, evaluator, queue>>

\* mesh_generator.rs:185-186
MeshGeneratorReturns ==
    /\ ~panicked
    /\ readback.pc = "return"
    /\ readback.program = "MeshGenerator::new"
    /\ readback' = At(readback, "done")
    /\ UNCHANGED <<fields, call, events, frame, peak, steps, targets,
                   evaluator, queue>>

NextReadback ==
    \/ SubmitCopy
    \/ MapAsync
    \/ MapCompletes
    \/ Await
    \/ ReadMapped
    \/ Unmap
    \/ StateNewReturns
    \/ MeshGeneratorReturns

SpecReadback == InitReadback /\ [][NextReadback]_vars

(***************************************************************************)
(* view_proj alone, on Cameras of every target                             *)
(***************************************************************************)
\* the targets a Camera is built with (State::new's is the first)
Targets == { Vec3(0, 0, 0), Vec3(1, 0, 0), Vec3(0, -1, 2), Vec3(-3, 2, 1) }

\* the distances, zeniths and azimuths a Camera is built with: those of
\* State::new and the ends of their ranges
TargetDistances == { F32(12, 0), CLOSEST, FARTHEST }

TargetZeniths == { F32(14110791, -24), ZENITH_CLAMP, FSub(PI, ZENITH_CLAMP) }

TargetAzimuths == { F32(9287437, -23), FZero }

\* State::new's Camera (lib.rs:157-167) with other values in four fields
CameraAt(c, target, distance, zenith, azimuth) ==
    [c EXCEPT !.target = target, !.distance = distance,
              !.zenith = zenith, !.azimuth = azimuth]

InitViewProj ==
    \E width, height \in 1..MaxDim, oc \in BOOLEAN, target \in Targets,
       distance \in TargetDistances, zenith \in TargetZeniths,
       azimuth \in TargetAzimuths :
        /\ StateIs([new(width, height, oc) EXCEPT
                       !.camera = CameraAt(@, target, distance, zenith,
                                           azimuth)],
                   [op |-> "Camera", args |-> <<>>], NoneLive)
        /\ StateAlone("evaluator.wgsl")

ViewProj ==
    /\ call.op = "Camera"
    /\ call' = [op |-> "view_proj", args |-> <<>>]
    /\ camera_buffer' = view_proj(camera)
    /\ UNCHANGED <<config, multisampling_enabled, multisample_texture,
                   multisample_texture_view, depth_texture,
                   depth_texture_view, render_pipeline, meshgrid_buffers,
                   uniform_buffer, camera, overflow_checks, panicked,
                   events, gen, frame, live, peak, steps, targets, evaluator,
                   queue, readback>>

NextViewProj == ViewProj

SpecViewProj == InitViewProj /\ [][NextViewProj]_vars

\* T + v of an integer vector T and a vector of products v
Vec3Add(t, v) ==
    [x |-> Offset(v.x, t.x), y |-> Offset(v.y, t.y), z |-> Offset(v.z, t.z)]

\* C16: view_proj looks from eye = T + spherical_to_rect() at T with up = +Z,
\* for every target T.
C16_EyeIsTargetPlusOffset ==
    call.op = "view_proj" =>
        /\ camera_buffer.eye = Vec3Add(camera.target, spherical_to_rect(camera))
        /\ camera_buffer.center = camera.target
        /\ camera_buffer.up = Vec3(0, 0, 1)

\* the floor-style modulo ((a % b) + b) % b in f32
float_modulo_floor(a, b) == FRem(FAdd(FRem(a, b), b), b)

\* C17: the azimuth rotate_azimuth(angle) leaves is the floor-style modulo
\* ((a % b) + b) % b of a = azimuth + angle and b = 2*PI; it is a itself when
\* 0 <= a < b and is never negative.
C17_FloatModuloIsFloorModulo ==
    [][(call'.op = "rotate_azimuth")
         => LET a == FAdd(camera.azimuth, call'.args[1])
            IN  /\ camera'.azimuth = float_modulo_floor(a, TAU)
                /\ ~FLt(camera'.azimuth, FZero)
                /\ (~FLt(a, FZero) /\ FLt(a, TAU)) => camera'.azimuth = a]_vars

\* the vertex data of the targets of the last call is what it was before it
SameVertexData ==
    \A i \in DOMAIN targets :
        (\E k \in DOMAIN call'.args : call'.args[k] = i)
            => vertex_data(evaluator, targets'[i])
                   = vertex_data(evaluator, targets[i])

EvaluatedAgain ==
    /\ call.op = "evaluate_buffers"
    /\ call'.op = "evaluate_buffers"
    /\ call'.args = call.args

C18_OneDispatchPerTarget ==
    [][(call'.op = "evaluate_buffers")
         => /\ events' = <<[op |-> "submit", obj |-> "evaluate"]>>
            /\ Len(queue') = 1
            /\ DOMAIN queue'[1].dispatches = DOMAIN call'.args
            /\ \A k \in DOMAIN call'.args :
                  /\ queue'[1].dispatches[k].bind_group =
                         [vertex_buffer |-> targets[call'.args[k]].id]
                  /\ queue'[1].dispatches[k].workgroups =
                         <<targets[call'.args[k]].evaluator_dispatch_count,
                           U(1), U(1)>>
            /\ DOMAIN targets' = DOMAIN targets
            /\ \A i \in DOMAIN targets :
                  /\ targets'[i].index_buffer = targets[i].index_buffer
                  /\ targets'[i].index_count = targets[i].index_count
                  /\ targets'[i].vertex_buffer = targets[i].vertex_buffer]_vars

\* two targets of different sizes evaluated in one call, the second first
C18_Witness ==
    /\ call = [op |-> "evaluate_buffers", args |-> <<2, 1>>]
    /\ Len(queue[1].dispatches) = 2
    /\ targets[1].evaluator_dispatch_count # targets[2].evaluator_dispatch_count
    /\ queue[1].dispatches[1].workgroups[1] = targets[2].evaluator_dispatch_count

\* the events of the readbacks through the staging buffer b, in order
RECURSIVE EventsOf(_, _)
EventsOf(log, b) ==
    IF log = <<>> THEN <<>>
    ELSE IF log[1].staging = b THEN <<log[1].ev>> \o EventsOf(Tail(log), b)
    ELSE EventsOf(Tail(log), b)

ReadbackOrder == <<"submit_copy", "map_async", "signal", "read", "unmap">>

\* evs is a beginning of ReadbackOrder repeated
InReadbackOrder(evs) ==
    \A k \in DOMAIN evs : evs[k] = ReadbackOrder[((k - 1) % 5) + 1]

\* C19: in every readback the events are, in this order, the copy into the
\* staging buffer submitted, map_async requested, the completion signal
\* received, the mapped range read, the buffer unmapped; the range is read
\* only after a signal of success, and no submission writes a staging buffer
\* that is still mapped.
C19_ReadbackOrder ==
    /\ [](\A b \in {1, 2} :
            /\ InReadbackOrder(EventsOf(readback.log, b))
            /\ \A k \in DOMAIN readback.log :
                  readback.log[k].ev = "read"
                      => /\ k > 1
                         /\ readback.log[k - 1] =
                                [ev |-> "signal",
                                 staging |-> readback.log[k].staging,
                                 res |-> Some("Ok")])
    /\ [][Len(queue') > Len(queue)
             => queue'[Len(queue')].copy.staging \notin readback.mapped]_vars

\* MeshGenerator::new has made both its readbacks through result_buffer
C19_Witness ==
    /\ readback.program = "MeshGenerator::new"
    /\ readback.pc = "done"
    /\ ~panicked
    /\ EventsOf(readback.log, 1) = ReadbackOrder \o ReadbackOrder
    /\ Len(queue) = 2
    /\ queue[2].copy.staging = queue[1].copy.staging

\* C20: after a readback whose map ended with an error, the State and its
\* GridBuffers are unchanged and usable by later operations: nothing has
\* panicked.
C20_FailedReadbackLeavesStateUsable ==
    (/\ readback.program = "State::new"
     /\ \E k \in DOMAIN readback.log :
           /\ readback.log[k].ev = "signal"
           /\ readback.log[k].res = Some("Err"))
        => ~panicked

\* C21: a State built with width > 0 and height > 0 keeps config.width > 0
\* and config.height > 0 through every sequence of public operations; the
\* resize inside a set_multisampling_enabled that is not ignored takes its
\* non-trivial branch (it configures the surface and creates a depth
\* texture); and neither set_multisampling_enabled nor render panics on its
\* expect: disabling finds a multisample texture, render with multisampling
\* on finds a multisample view.
C21_MultisamplePathsCannotFail ==
    /\ [](config.width > 0 /\ config.height > 0)
    /\ [][(/\ call'.op = "set_multisampling_enabled"
           /\ call'.args[1] # multisampling_enabled)
             => /\ HasEvent("configure", "surface")'
                /\ HasEvent("create", "depth")'
                /\ multisampling_enabled' = call'.args[1]]_vars
    /\ [][(call'.op \in {"set_multisampling_enabled", "render"})
             => ~panicked']_vars

\* multisampling has been switched off again and a texture was there to
\* destroy
C21_Witness ==
    /\ call = [op |-> "set_multisampling_enabled", args |-> <<FALSE>>]
    /\ ~panicked
    /\ HasEvent("destroy", "multisample")
    /\ HasEvent("configure", "surface")
    /\ ~multisampling_enabled
    /\ config.width > 0
    /\ config.height > 0

\* the positions in events of the event (op, obj)
EventsAt(op, obj) ==
    {i \in DOMAIN events : events[i] = [op |-> op, obj |-> obj]}

\* C22: the generation passes of every generate_buffers call read the
\* {resolution, x_range, y_range} that call wrote into the one uniform
\* buffer: the passes of the grid State holds were submitted with the
\* buffer holding the resolution of the call that generated it, and in a
\* call that generates, the one write of the uniform comes before the one
\* submission of the passes, with no other write between them.
C22_PassReadsOwnUniform ==
    ~panicked =>
        /\ meshgrid_buffers.submitted[1].pass = "generate"
        /\ meshgrid_buffers.submitted[1].uniform =
               [resolution |-> gen[1].resolution,
                x_range |-> <<-5, 5>>, y_range |-> <<-5, 5>>]
        /\ call.op \in {"new", "set_grid_resolution"} =>
              /\ gen[1].resolution = IF call.op = "new"
                                     THEN <<U(255), U(255)>>
                                     ELSE call.args
              /\ Cardinality(EventsAt("write_buffer", "uniform_buffer")) = 1
              /\ Cardinality(EventsAt("submit", "generate")) = 1
              /\ \A i \in EventsAt("write_buffer", "uniform_buffer") :
                    \A j \in EventsAt("submit", "generate") : i < j

\* a grid generated at another resolution than the one State::new wrote
\* into the uniform buffer
C22_Witness ==
    /\ call.op = "set_grid_resolution"
    /\ ~panicked
    /\ call.args # <<U(255), U(255)>>
    /\ uniform_buffer.resolution = call.args
    /\ meshgrid_buffers.submitted[1].uniform.resolution = call.args
    /\ EventsAt("submit", "generate") # {}

====
